---- MODULE Spec2Model ----
(***************************************************************************)
(* raus: ranged unique id supplier (src/raus.go).                          *)
(*                                                                         *)
(* Every session (a *Raus value) runs three goroutines around one          *)
(* unbuffered error channel: the caller inside Get, subscribe (discovery,  *)
(* claim by SET NX, duplicate watcher) and publish (heartbeat and TTL      *)
(* refresh on a 1 s ticker).  The store is a key/value map whose lock keys *)
(* carry a time to live counted in seconds, and a broadcast channel that   *)
(* hands every published payload to the subscriptions open at that moment. *)
(* Strings are sequences of one-character strings, so that formatting and  *)
(* parsing of payloads are computed as the code computes them.             *)
(***************************************************************************)
EXTENDS Integers, Sequences, FiniteSets, TLC

(* ------------------------------ constants ----------------------------- *)

ErrorID == -1

maxCandidate == 10

\* expiration handed to SetNX and Set, in seconds
LockTTL == 60

\* the discovery window, in seconds
timeout == 3

\* the range handed to New: 0 <= min < max
min == 1

max == 2

\* messages a subscription buffers before the store drops the next one
MaxInbox == 1

\* refreshes in a row a publisher may miss while the store stays reachable
MaxMiss == 1

defaultNamespace == <<"r">>

pubSubChannelSuffix == <<":", "b">>

\* the uuids of the sessions that may run, and the uuid of a foreign peer
Sessions == {"a", "b"}

PeerUuid == "p"

Digits == <<"0", "1", "2", "3", "4", "5", "6", "7", "8", "9">>

\* error values carried by the channel; Nil is Go's nil error
Nil == "nil"

ErrCanceled == "canceled"

ErrDupUuid == "duplicate uuid"

ErrUnknownMsg == "unknown redis message"

ErrNoId == "no more available id"

ErrDupId == "duplicate id detected"

ErrRedis == "redis error"

(* --------------------------- pure functions --------------------------- *)

IsDigit(c) == \E k \in 1..10 : Digits[k] = c

DigitVal(c) == (CHOOSE k \in 1..10 : Digits[k] = c) - 1

RECURSIVE DigitsOf(_)
DigitsOf(n) == IF n < 10 THEN <<Digits[n + 1]>>
               ELSE DigitsOf(n \div 10) \o <<Digits[(n % 10) + 1]>>

\* fmt's %d
Itoa(n) == IF n < 0 THEN <<"-">> \o DigitsOf(0 - n) ELSE DigitsOf(n)

RECURSIVE DigitsVal(_)
DigitsVal(t) == IF Len(t) = 0 THEN 0
                ELSE 10 * DigitsVal(SubSeq(t, 1, Len(t) - 1)) + DigitVal(t[Len(t)])

\* strconv.Atoi: an optional sign, then one or more decimal digits
Atoi(t) ==
  LET signed == Len(t) > 0 /\ t[1] \in {"+", "-"}
      body == IF signed THEN SubSeq(t, 2, Len(t)) ELSE t
      good == Len(body) > 0 /\ \A k \in 1..Len(body) : IsDigit(body[k])
  IN  IF ~good THEN [ok |-> FALSE, val |-> 0]
      ELSE [ok |-> TRUE,
            val |-> IF signed /\ t[1] = "-" THEN 0 - DigitsVal(body) ELSE DigitsVal(body)]

\* strings.Split(payload, ":")
RECURSIVE Split(_)
Split(p) ==
  IF \A k \in 1..Len(p) : p[k] # ":" THEN <<p>>
  ELSE LET k == CHOOSE j \in 1..Len(p) : p[j] = ":" /\ \A h \in 1..(j - 1) : p[h] # ":"
       IN  <<SubSeq(p, 1, k - 1)>> \o Split(SubSeq(p, k + 1, Len(p)))

\* variant: more than two fields are accepted, the first two are used
parsePayloadLenient(payload) ==
  LET s == Split(payload)
  IN  IF Len(s) < 2 THEN [err |-> TRUE, uuid |-> <<>>, id |-> 0]
      ELSE IF ~Atoi(s[2]).ok THEN [err |-> TRUE, uuid |-> <<>>, id |-> 0]
      ELSE [err |-> FALSE, uuid |-> s[1], id |-> Atoi(s[2]).val]

parsePayload(payload) ==
  LET s == Split(payload)
  IN  IF Len(s) # 2 THEN [err |-> TRUE, uuid |-> <<>>, id |-> 0]
      ELSE IF ~Atoi(s[2]).ok THEN [err |-> TRUE, uuid |-> <<>>, id |-> 0]
      ELSE [err |-> FALSE, uuid |-> s[1], id |-> Atoi(s[2]).val]

newPayload(uuid, id) == uuid \o <<":">> \o Itoa(id)

candidateLockKey(id) == defaultNamespace \o <<":", "i", "d", ":">> \o Itoa(id)

\* the r.uuid of session s, as a string
Uuid(s) == <<s>>

\* variant: the scan takes every id of the range, used or not
RECURSIVE ScanIgnoresUsed(_, _, _)
ScanIgnoresUsed(i, used, acc) ==
  IF i > max THEN acc
  ELSE IF Len(acc) + 1 >= maxCandidate THEN Append(acc, i)
  ELSE ScanIgnoresUsed(i + 1, used, Append(acc, i))

\* lines 146-155: the first maxCandidate ids of min..max that are not used
RECURSIVE Scan(_, _, _)
Scan(i, used, acc) ==
  IF i > max THEN acc
  ELSE IF i \in used THEN Scan(i + 1, used, acc)
  ELSE IF Len(acc) + 1 >= maxCandidate THEN Append(acc, i)
  ELSE Scan(i + 1, used, Append(acc, i))

\* variant: the scan starts one below the range
candidateBelowMin(used) == Scan(min - 1, used, <<>>)

candidate(used) == Scan(min, used, <<>>)

(* -------------------------------- state ------------------------------- *)

VARIABLES
  live,        \* who takes part in this run: sessions, foreign peers (fixed by Init)
  lock,        \* the store: lock key -> [val, ttl]; ttl = 0 means no such key
  inbox,       \* per session: what its open subscription has buffered
  subscribed,  \* per session: its subscription is open on the broadcast channel
  ctxDone,     \* per session: the context handed to Get is cancelled
  getpc,       \* per session: where the caller is inside Get
  retId,       \* per session: the id Get returned
  retErr,      \* per session: the error Get returned
  asyncErrs,   \* per session: what the caller read from the returned channel
  channel,     \* per session: r.channel, <<v>> while a sender is blocked offering v
  subpc,       \* per session: where the subscribe goroutine is
  usedIds,     \* per session: subscribe's usedIds table
  rid,         \* per session: r.id
  tries,       \* per session: how many SetNX calls the claim loop has issued
  since,       \* per session: whole seconds since discovery started
  msg,         \* per session: the item subscribe's loop body is looking at
  pubpc,       \* per session: where the publish goroutine is
  tick         \* per session: ticker.C holds a tick

vars == <<live, lock, inbox, subscribed, ctxDone, getpc, retId, retErr, asyncErrs,
          channel, subpc, usedIds, rid, tries, since, msg, pubpc, tick>>

storeVars == <<lock, inbox, subscribed>>

callerVars == <<getpc, retId, retErr, asyncErrs>>

subVars == <<subpc, usedIds, rid, tries, since, msg>>

pubVars == <<pubpc, tick>>

\* the store takes any key; these are the ones a run can name
Keys == {candidateLockKey(i) : i \in (min - 1)..(max + 1)}

Absent == [val |-> <<>>, ttl |-> 0]

Exists(key) == lock[key].ttl > 0

\* r.lockKey(): the lock key of the id the session recorded
lockKey(s) == defaultNamespace \o <<":", "i", "d", ":">> \o Itoa(rid[s])

\* r.pubSubChannel as set by New
pubSubChannel == defaultNamespace \o pubSubChannelSuffix

(* ----------------------------- the store ------------------------------ *)

\* variant: SetNX reports success whether or not the key exists
SetNXValAlways(key) == TRUE

\* the reply to SET NX: whether the key was written
SetNXVal(key) == ~Exists(key)

\* SET key val EX LockTTL NX: writes only when the key does not exist
SetNX(key, val) ==
  IF Exists(key) THEN lock ELSE [lock EXCEPT ![key] = [val |-> val, ttl |-> LockTTL]]

\* variant: the write leaves a key alone that holds another value
SetIfAbsentOrOwn(key, val) ==
  IF Exists(key) /\ lock[key].val # val THEN lock
  ELSE [lock EXCEPT ![key] = [val |-> val, ttl |-> LockTTL]]

\* SET key val EX LockTTL
Set(key, val) == [lock EXCEPT ![key] = [val |-> val, ttl |-> LockTTL]]

\* DEL key
Del(key) == [lock EXCEPT ![key] = Absent]

Message(p) == [kind |-> "Message", payload |-> p]

Subscription == [kind |-> "Subscription", payload |-> pubSubChannel]

Pong == [kind |-> "Pong", payload |-> <<>>]

NoMsg == [kind |-> "none", payload |-> <<>>]

\* PUBLISH: every open subscription with room buffers the item
Publish(item) ==
  [t \in Sessions |->
     IF subscribed[t] /\ Len(inbox[t]) < MaxInbox THEN Append(inbox[t], item) ELSE inbox[t]]

(* ------------------------------- Init --------------------------------- *)

InitOf(S) ==
  /\ live = S
  /\ lock = [k \in Keys |-> Absent]
  /\ inbox = [s \in Sessions |-> <<>>]
  /\ subscribed = [s \in Sessions |-> FALSE]
  /\ ctxDone = [s \in Sessions |-> FALSE]
  /\ getpc = [s \in Sessions |-> "new"]
  /\ retId = [s \in Sessions |-> 0]
  /\ retErr = [s \in Sessions |-> Nil]
  /\ asyncErrs = [s \in Sessions |-> <<>>]
  /\ channel = [s \in Sessions |-> <<>>]
  /\ subpc = [s \in Sessions |-> "off"]
  /\ usedIds = [s \in Sessions |-> {}]
  /\ rid = [s \in Sessions |-> 0]
  /\ tries = [s \in Sessions |-> 0]
  /\ since = [s \in Sessions |-> 0]
  /\ msg = [s \in Sessions |-> NoMsg]
  /\ pubpc = [s \in Sessions |-> "off"]
  /\ tick = [s \in Sessions |-> FALSE]

(* -------------------------------- Get --------------------------------- *)

\* line 79-80: Get starts subscribe and blocks on the channel
GetCall(s) ==
  /\ getpc[s] = "new"
  /\ getpc' = [getpc EXCEPT ![s] = "wait"]
  /\ subpc' = [subpc EXCEPT ![s] = "SUBSCRIBE"]
  /\ UNCHANGED <<live, storeVars, ctxDone, retId, retErr, asyncErrs, channel,
                 usedIds, rid, tries, since, msg, pubVars>>

\* variant: raiseError without the return that follows it in discovery and in the
\* claim loop
AfterSendGoesOn(pc) ==
  CASE pc = "sendNil" -> "RESUB"
    [] pc = "sendResubErr" -> "WATCHING"
    [] pc = "sendErr" -> "LOCKING"
    [] OTHER -> "done"

\* where subscribe goes on once its send has been received
AfterSend(pc) ==
  CASE pc = "sendNil" -> "RESUB"
    [] pc = "sendResubErr" -> "WATCHING"
    [] OTHER -> "done"

\* line 80-83: the handshake value arrives; a non-nil error is returned at once
GetRecv(s) ==
  /\ getpc[s] = "wait"
  /\ channel[s] # <<>>
  /\ channel' = [channel EXCEPT ![s] = <<>>]
  /\ subpc' = [subpc EXCEPT ![s] = AfterSend(subpc[s])]
  /\ IF channel[s][1] # Nil
       THEN /\ getpc' = [getpc EXCEPT ![s] = "failed"]
            /\ retId' = [retId EXCEPT ![s] = ErrorID]
            /\ retErr' = [retErr EXCEPT ![s] = channel[s][1]]
       ELSE /\ getpc' = [getpc EXCEPT ![s] = "spawn"]
            /\ UNCHANGED <<retId, retErr>>
  /\ UNCHANGED <<live, storeVars, ctxDone, asyncErrs, usedIds, rid, tries, since, msg, pubVars>>

\* line 84-85: Get starts publish and returns r.id with the channel
GetReturn(s) ==
  /\ getpc[s] = "spawn"
  /\ getpc' = [getpc EXCEPT ![s] = "ok"]
  /\ retId' = [retId EXCEPT ![s] = rid[s]]
  /\ pubpc' = [pubpc EXCEPT ![s] = "TICKER"]
  /\ UNCHANGED <<live, storeVars, ctxDone, retErr, asyncErrs, channel, subVars, tick>>

\* the caller reads the channel Get returned
CallerRecv(s) ==
  /\ getpc[s] = "ok"
  /\ channel[s] # <<>>
  /\ asyncErrs' = [asyncErrs EXCEPT ![s] = Append(@, channel[s][1])]
  /\ channel' = [channel EXCEPT ![s] = <<>>]
  /\ subpc' = [subpc EXCEPT ![s] = AfterSend(subpc[s])]
  /\ UNCHANGED <<live, storeVars, ctxDone, getpc, retId, retErr, usedIds, rid, tries, since, msg,
                 pubVars>>

\* the caller cancels the context
Cancel(s) ==
  /\ getpc[s] # "new"
  /\ ~ctxDone[s]
  /\ ctxDone' = [ctxDone EXCEPT ![s] = TRUE]
  /\ UNCHANGED <<live, storeVars, callerVars, channel, subVars, pubVars>>

(* ------------------------------ subscribe ----------------------------- *)

\* what a foreign peer may put on the broadcast channel: heartbeats for an id in
\* the range and for one outside it, a payload that carries the uuid of a session,
\* and payloads that do not parse (one part, three parts, an id that is no number)
PeerPayloads ==
  {newPayload(Uuid(PeerUuid), min), newPayload(Uuid(PeerUuid), max + 1)}
    \cup {newPayload(Uuid(s), min) : s \in live \cap Sessions}
    \cup {Uuid(PeerUuid),
          newPayload(Uuid(PeerUuid), min) \o <<":">> \o Itoa(max)}
    \cup {Uuid(s) \o <<":", "x">> : s \in live \cap Sessions}

\* line 98-104: open the discovery subscription; start the window
SubOpen(s) ==
  /\ subpc[s] = "SUBSCRIBE"
  /\ \E ok \in BOOLEAN :
       IF ok
         THEN /\ subscribed' = [subscribed EXCEPT ![s] = TRUE]
              /\ inbox' = [inbox EXCEPT ![s] = <<Subscription>>]
              /\ since' = [since EXCEPT ![s] = 0]
              /\ subpc' = [subpc EXCEPT ![s] = "LISTING"]
              /\ UNCHANGED channel
         ELSE /\ channel' = [channel EXCEPT ![s] = <<ErrRedis>>]
              /\ subpc' = [subpc EXCEPT ![s] = "sendErr"]
              /\ UNCHANGED <<subscribed, inbox, since>>
  /\ UNCHANGED <<live, lock, ctxDone, callerVars, usedIds, rid, tries, msg, pubVars>>

\* line 106-112: the loop condition and the cancellation check of one iteration
Listing(s) ==
  /\ subpc[s] = "LISTING"
  /\ IF ~(since[s] < timeout)
       THEN /\ subpc' = [subpc EXCEPT ![s] = "UNSUB"]
            /\ UNCHANGED channel
       ELSE IF ctxDone[s]
         THEN /\ channel' = [channel EXCEPT ![s] = <<ErrCanceled>>]
              /\ subpc' = [subpc EXCEPT ![s] = "sendErr"]
         ELSE /\ subpc' = [subpc EXCEPT ![s] = "RECV"]
              /\ UNCHANGED channel
  /\ UNCHANGED <<live, storeVars, ctxDone, callerVars, usedIds, rid, tries, since, msg, pubVars>>

\* what ReceiveTimeout and ReceiveMessage may hand over next: the head of what
\* the subscription buffered, or what a foreign peer (or the store, answering a
\* ping) sends at this moment
Arrivals(s) ==
  IF ~subscribed[s] THEN {}
  ELSE IF inbox[s] # <<>> THEN {Head(inbox[s])}
  ELSE IF PeerUuid \in live THEN {Message(p) : p \in PeerPayloads} \cup {Pong}
  ELSE {}

\* line 113-116: ReceiveTimeout returns the next item, or an error (the deadline
\* passed, or the connection failed) that ends the window
Recv(s) ==
  /\ subpc[s] = "RECV"
  /\ \/ \E item \in Arrivals(s) :
          /\ inbox' = [inbox EXCEPT ![s] = IF @ # <<>> THEN Tail(@) ELSE @]
          /\ msg' = [msg EXCEPT ![s] = item]
          /\ subpc' = [subpc EXCEPT ![s] = "SWITCH"]
     \/ /\ subpc' = [subpc EXCEPT ![s] = "UNSUB"]
        /\ UNCHANGED <<inbox, msg>>
  /\ UNCHANGED <<live, lock, subscribed, ctxDone, callerVars, channel, usedIds, rid, tries,
                 since, pubVars>>

\* variant: discovery without the comparison of the uuid with its own
DiscoverAnyUuid(s, item) ==
  IF item.kind = "Message"
    THEN LET m == parsePayload(item.payload)
         IN  IF m.err
               THEN /\ subpc' = [subpc EXCEPT ![s] = "LISTING"]
                    /\ UNCHANGED <<channel, usedIds>>
               ELSE /\ usedIds' = [usedIds EXCEPT ![s] = @ \cup {m.id}]
                    /\ subpc' = [subpc EXCEPT ![s] = "LISTING"]
                    /\ UNCHANGED channel
    ELSE IF item.kind = "Subscription"
      THEN /\ subpc' = [subpc EXCEPT ![s] = "LISTING"]
           /\ UNCHANGED <<channel, usedIds>>
      ELSE /\ channel' = [channel EXCEPT ![s] = <<ErrUnknownMsg>>]
           /\ subpc' = [subpc EXCEPT ![s] = "sendErr"]
           /\ UNCHANGED usedIds

\* line 117-135: what the received item does to the discovery
Discover(s, item) ==
  IF item.kind = "Message"
    THEN LET m == parsePayload(item.payload)
         IN  IF m.err
               THEN /\ subpc' = [subpc EXCEPT ![s] = "LISTING"]
                    /\ UNCHANGED <<channel, usedIds>>
               ELSE IF m.uuid = Uuid(s)
                 THEN /\ channel' = [channel EXCEPT ![s] = <<ErrDupUuid>>]
                      /\ subpc' = [subpc EXCEPT ![s] = "sendErr"]
                      /\ UNCHANGED usedIds
                 ELSE /\ usedIds' = [usedIds EXCEPT ![s] = @ \cup {m.id}]
                      /\ subpc' = [subpc EXCEPT ![s] = "LISTING"]
                      /\ UNCHANGED channel
    ELSE IF item.kind = "Subscription"
      THEN /\ subpc' = [subpc EXCEPT ![s] = "LISTING"]
           /\ UNCHANGED <<channel, usedIds>>
      ELSE /\ channel' = [channel EXCEPT ![s] = <<ErrUnknownMsg>>]
           /\ subpc' = [subpc EXCEPT ![s] = "sendErr"]
           /\ UNCHANGED usedIds

\* line 117-136: the type switch on the received item
Switch(s) ==
  /\ subpc[s] = "SWITCH"
  /\ Discover(s, msg[s])
  /\ msg' = [msg EXCEPT ![s] = NoMsg]
  /\ UNCHANGED <<live, storeVars, ctxDone, callerVars, rid, tries, since, pubVars>>

\* line 138-142: leave the broadcast channel, then look at the context once more
Unsub(s) ==
  /\ subpc[s] = "UNSUB"
  /\ subscribed' = [subscribed EXCEPT ![s] = FALSE]
  /\ inbox' = [inbox EXCEPT ![s] = <<>>]
  /\ IF ctxDone[s]
       THEN /\ channel' = [channel EXCEPT ![s] = <<ErrCanceled>>]
            /\ subpc' = [subpc EXCEPT ![s] = "sendErr"]
       ELSE /\ subpc' = [subpc EXCEPT ![s] = "LOCKING"]
            /\ UNCHANGED channel
  /\ UNCHANGED <<live, lock, ctxDone, callerVars, usedIds, rid, tries, since, msg, pubVars>>

\* variant: a SetNX that returns false does not mark its id used
LockingNoMark(s) ==
  /\ subpc[s] = "LOCKING"
  /\ LET c == candidate(usedIds[s])
     IN  IF Len(c) = 0
           THEN /\ channel' = [channel EXCEPT ![s] = <<ErrNoId>>]
                /\ subpc' = [subpc EXCEPT ![s] = "sendErr"]
                /\ UNCHANGED <<lock, usedIds, rid, tries>>
           ELSE \E n \in 1..Len(c), ioerr \in BOOLEAN, applied \in BOOLEAN :
                  LET key == candidateLockKey(c[n])
                  IN  /\ tries' = [tries EXCEPT ![s] = @ + 1]
                      /\ IF ioerr
                           THEN /\ lock' = IF applied THEN SetNX(key, Uuid(s)) ELSE lock
                                /\ channel' = [channel EXCEPT ![s] = <<ErrRedis>>]
                                /\ subpc' = [subpc EXCEPT ![s] = "sendErr"]
                                /\ UNCHANGED <<usedIds, rid>>
                           ELSE /\ applied
                                /\ lock' = SetNX(key, Uuid(s))
                                /\ IF SetNXVal(key)
                                     THEN /\ rid' = [rid EXCEPT ![s] = c[n]]
                                          /\ channel' = [channel EXCEPT ![s] = <<Nil>>]
                                          /\ subpc' = [subpc EXCEPT ![s] = "sendNil"]
                                          /\ UNCHANGED usedIds
                                     ELSE UNCHANGED <<usedIds, channel, subpc, rid>>
  /\ UNCHANGED <<live, inbox, subscribed, ctxDone, callerVars, since, msg, pubVars>>

\* line 145-184: one iteration of the claim loop. A SetNX that returns an error
\* may have run in the store all the same (its reply was lost)
Locking(s) ==
  /\ subpc[s] = "LOCKING"
  /\ LET c == candidate(usedIds[s])
     IN  IF Len(c) = 0
           THEN /\ channel' = [channel EXCEPT ![s] = <<ErrNoId>>]
                /\ subpc' = [subpc EXCEPT ![s] = "sendErr"]
                /\ UNCHANGED <<lock, usedIds, rid, tries>>
           ELSE \E n \in 1..Len(c), ioerr \in BOOLEAN, applied \in BOOLEAN :
                  LET key == candidateLockKey(c[n])
                  IN  /\ tries' = [tries EXCEPT ![s] = @ + 1]
                      /\ IF ioerr
                           THEN /\ lock' = IF applied THEN SetNX(key, Uuid(s)) ELSE lock
                                /\ channel' = [channel EXCEPT ![s] = <<ErrRedis>>]
                                /\ subpc' = [subpc EXCEPT ![s] = "sendErr"]
                                /\ UNCHANGED <<usedIds, rid>>
                           ELSE /\ applied
                                /\ lock' = SetNX(key, Uuid(s))
                                /\ IF SetNXVal(key)
                                     THEN /\ rid' = [rid EXCEPT ![s] = c[n]]
                                          /\ channel' = [channel EXCEPT ![s] = <<Nil>>]
                                          /\ subpc' = [subpc EXCEPT ![s] = "sendNil"]
                                          /\ UNCHANGED usedIds
                                     ELSE /\ usedIds' = [usedIds EXCEPT ![s] = @ \cup {c[n]}]
                                          /\ UNCHANGED <<channel, subpc, rid>>
  /\ UNCHANGED <<live, inbox, subscribed, ctxDone, callerVars, since, msg, pubVars>>

\* line 186-189: open the watcher's subscription; an error is raised, and the
\* goroutine goes on into the watch loop all the same
Resub(s) ==
  /\ subpc[s] = "RESUB"
  /\ \E ok \in BOOLEAN :
       IF ok
         THEN /\ subscribed' = [subscribed EXCEPT ![s] = TRUE]
              /\ inbox' = [inbox EXCEPT ![s] = <<Subscription>>]
              /\ subpc' = [subpc EXCEPT ![s] = "WATCHING"]
              /\ UNCHANGED channel
         ELSE /\ channel' = [channel EXCEPT ![s] = <<ErrRedis>>]
              /\ subpc' = [subpc EXCEPT ![s] = "sendResubErr"]
              /\ UNCHANGED <<subscribed, inbox>>
  /\ UNCHANGED <<live, lock, ctxDone, callerVars, usedIds, rid, tries, since, msg, pubVars>>

\* variant: the duplicate test without the comparison of the uuids
isDuplicateAnyUuid(s, m) == m.id = rid[s]

\* line 202: the watcher's test of a parsed message
isDuplicate(s, m) == m.id = rid[s] /\ m.uuid # Uuid(s)

\* line 192-196: ReceiveMessage hands over the next message; what is not a
\* message it reads and skips
Watching(s) ==
  /\ subpc[s] = "WATCHING"
  /\ \E item \in Arrivals(s) :
       /\ inbox' = [inbox EXCEPT ![s] = IF @ # <<>> THEN Tail(@) ELSE @]
       /\ IF item.kind = "Message"
            THEN /\ msg' = [msg EXCEPT ![s] = item]
                 /\ subpc' = [subpc EXCEPT ![s] = "CHECK"]
            ELSE UNCHANGED <<msg, subpc>>
  /\ UNCHANGED <<live, lock, subscribed, ctxDone, callerVars, channel, usedIds, rid, tries,
                 since, pubVars>>

\* line 197-206: parse the message and compare it with what the session holds
Check(s) ==
  /\ subpc[s] = "CHECK"
  /\ msg' = [msg EXCEPT ![s] = NoMsg]
  /\ LET m == parsePayload(msg[s].payload)
     IN  IF ~m.err /\ isDuplicate(s, m)
           THEN /\ channel' = [channel EXCEPT ![s] = <<ErrDupId>>]
                /\ subpc' = [subpc EXCEPT ![s] = "sendDup"]
           ELSE /\ subpc' = [subpc EXCEPT ![s] = "WATCHING"]
                /\ UNCHANGED channel
  /\ UNCHANGED <<live, storeVars, ctxDone, callerVars, usedIds, rid, tries, since, pubVars>>

(* ------------------------------- publish ------------------------------ *)

\* the store may fail a call of the publisher of s: its lock key has missed fewer
\* than MaxMiss refreshes (a longer loss of the store is an Outage)
MayFail(s) ==
  LET key == lockKey(s)
  IN  key \in Keys => lock[key].ttl = 0 \/ lock[key].ttl + MaxMiss >= LockTTL

\* variant: a failing Del is raised on the channel
PubTickReports(s) ==
  /\ pubpc[s] = "TICKER"
  /\ tick[s]
  /\ tick' = [tick EXCEPT ![s] = FALSE]
  /\ \E ok \in BOOLEAN :
       IF ctxDone[s]
         THEN /\ lock' = IF ok THEN Del(lockKey(s)) ELSE lock
              /\ channel' = IF ok THEN channel ELSE [channel EXCEPT ![s] = <<ErrRedis>>]
              /\ pubpc' = [pubpc EXCEPT ![s] = "done"]
              /\ UNCHANGED inbox
         ELSE /\ ok \/ MayFail(s)
              /\ inbox' = IF ok THEN Publish(Message(newPayload(Uuid(s), rid[s]))) ELSE inbox
              /\ pubpc' = [pubpc EXCEPT ![s] = IF ok THEN "SET" ELSE "TICKER"]
              /\ UNCHANGED <<lock, channel>>
  /\ UNCHANGED <<live, subscribed, ctxDone, callerVars, subVars>>

\* line 235-252: a tick arrives; on a cancelled context the lock key is deleted and
\* publish returns, otherwise the payload is published
PubTick(s) ==
  /\ pubpc[s] = "TICKER"
  /\ tick[s]
  /\ tick' = [tick EXCEPT ![s] = FALSE]
  /\ \E ok \in BOOLEAN :
       IF ctxDone[s]
         THEN /\ lock' = IF ok THEN Del(lockKey(s)) ELSE lock
              /\ pubpc' = [pubpc EXCEPT ![s] = "done"]
              /\ UNCHANGED inbox
         ELSE /\ ok \/ MayFail(s)
              /\ inbox' = IF ok THEN Publish(Message(newPayload(Uuid(s), rid[s]))) ELSE inbox
              /\ pubpc' = [pubpc EXCEPT ![s] = IF ok THEN "SET" ELSE "TICKER"]
              /\ UNCHANGED lock
  /\ UNCHANGED <<live, subscribed, ctxDone, callerVars, channel, subVars>>

\* variant: a failing Set is raised on the channel
PubSetReports(s) ==
  /\ pubpc[s] = "SET"
  /\ \E ok \in BOOLEAN :
       /\ ok \/ MayFail(s)
       /\ lock' = IF ok THEN Set(lockKey(s), Uuid(s)) ELSE lock
       /\ channel' = IF ok THEN channel ELSE [channel EXCEPT ![s] = <<ErrRedis>>]
  /\ pubpc' = [pubpc EXCEPT ![s] = "TICKER"]
  /\ UNCHANGED <<live, inbox, subscribed, ctxDone, callerVars, subVars, tick>>

\* line 253-258: update expiration
PubSet(s) ==
  /\ pubpc[s] = "SET"
  /\ \E ok \in BOOLEAN :
       /\ ok \/ MayFail(s)
       /\ lock' = IF ok THEN Set(lockKey(s), Uuid(s)) ELSE lock
  /\ pubpc' = [pubpc EXCEPT ![s] = "TICKER"]
  /\ UNCHANGED <<live, inbox, subscribed, ctxDone, callerVars, channel, subVars, tick>>

(* ------------------------- time and the peers ------------------------- *)

\* a goroutine of s has a step to take that does not wait for anything
Busy(s) ==
  \/ subpc[s] \in {"SUBSCRIBE", "LISTING", "SWITCH", "UNSUB", "LOCKING", "RESUB", "CHECK"}
  \/ subpc[s] \in {"RECV", "WATCHING"} /\ inbox[s] # <<>>
  \/ channel[s] # <<>> /\ getpc[s] = "wait"
  \/ getpc[s] = "spawn"
  \/ pubpc[s] = "TICKER" /\ tick[s]
  \/ pubpc[s] = "SET"

\* the lock keys d seconds later: they age and expire, but a foreign peer keeps
\* its own key alive
Aged(d) ==
  [k \in Keys |->
     IF lock[k].val = Uuid(PeerUuid) THEN lock[k]
     ELSE IF lock[k].ttl <= d THEN Absent
     ELSE [lock[k] EXCEPT !.ttl = @ - d]]

\* one second passes once every goroutine waits: lock keys age, discovery windows
\* run down, each ticker fires
Tick ==
  /\ \A s \in live \cap Sessions : ~Busy(s)
  /\ lock' = Aged(1)
  /\ since' = [s \in Sessions |->
                 IF subpc[s] = "RECV" /\ since[s] < timeout THEN since[s] + 1 ELSE since[s]]
  /\ tick' = [s \in Sessions |-> tick[s] \/ pubpc[s] = "TICKER"]
  /\ UNCHANGED <<live, inbox, subscribed, ctxDone, callerVars, channel, subpc, usedIds,
                 rid, tries, msg, pubpc>>

\* the sessions cannot reach the store for LockTTL seconds: every Publish of every
\* tick in between fails (line 248-252), so no lock key of a session is refreshed
\* and all of them expire; the tickers hold a tick when the store is back
Outage ==
  /\ \A s \in live \cap Sessions : ~Busy(s) /\ subpc[s] # "RECV"
  /\ \E s \in live \cap Sessions : pubpc[s] = "TICKER"
  /\ \A s \in live \cap Sessions : pubpc[s] = "TICKER" => ~ctxDone[s]
  /\ lock' = Aged(LockTTL)
  /\ tick' = [s \in Sessions |-> tick[s] \/ pubpc[s] = "TICKER"]
  /\ UNCHANGED <<live, inbox, subscribed, ctxDone, callerVars, channel, subVars, pubpc>>

\* a foreign peer claims a free id
PeerClaim(i) ==
  /\ ~Exists(candidateLockKey(i))
  /\ lock' = SetNX(candidateLockKey(i), Uuid(PeerUuid))
  /\ UNCHANGED <<live, inbox, subscribed, ctxDone, callerVars, channel, subVars, pubVars>>

\* a foreign peer gives its id back
PeerRelease(i) ==
  /\ lock[candidateLockKey(i)].val = Uuid(PeerUuid)
  /\ lock' = Del(candidateLockKey(i))
  /\ UNCHANGED <<live, inbox, subscribed, ctxDone, callerVars, channel, subVars, pubVars>>

(* --------------------------- specifications --------------------------- *)

Peer ==
  \/ \E i \in min..max : PeerClaim(i)
  \/ \E i \in min..max : PeerRelease(i)

\* what the caller does with what Get returned
Caller ==
  \/ \E s \in live \cap Sessions : CallerRecv(s)
  \/ \E s \in live \cap Sessions : Cancel(s)

\* Get and the goroutines it starts
Session ==
  \/ \E s \in live \cap Sessions : GetCall(s)
  \/ \E s \in live \cap Sessions : GetRecv(s)
  \/ \E s \in live \cap Sessions : GetReturn(s)
  \/ \E s \in live \cap Sessions : SubOpen(s)
  \/ \E s \in live \cap Sessions : Listing(s)
  \/ \E s \in live \cap Sessions : Recv(s)
  \/ \E s \in live \cap Sessions : Switch(s)
  \/ \E s \in live \cap Sessions : Unsub(s)
  \/ \E s \in live \cap Sessions : Locking(s)
  \/ \E s \in live \cap Sessions : Resub(s)
  \/ \E s \in live \cap Sessions : Watching(s)
  \/ \E s \in live \cap Sessions : Check(s)
  \/ \E s \in live \cap Sessions : PubTick(s)
  \/ \E s \in live \cap Sessions : PubSet(s)

\* one session among foreign peers
Init == InitOf({"a", PeerUuid})

Next == Session \/ Caller \/ Peer \/ Tick \/ Outage

Spec == Init /\ [][Next]_vars

\* the steps of the subscribe goroutine
SubStep(s) ==
  \/ SubOpen(s)
  \/ Listing(s)
  \/ Recv(s)
  \/ Switch(s)
  \/ Unsub(s)
  \/ Locking(s)
  \/ Resub(s)
  \/ Watching(s)
  \/ Check(s)

\* every goroutine that can take a step takes one, and time does not stop
Fairness ==
  /\ WF_vars(GetRecv("a") \/ GetReturn("a"))
  /\ WF_vars(SubStep("a"))
  /\ WF_vars(PubTick("a") \/ PubSet("a"))
  /\ SF_vars(Tick)

FairSpec == Spec /\ Fairness

\* two sessions against one store
InitPair == InitOf(Sessions)

NextPair == Session \/ Tick \/ Outage

SpecPair == InitPair /\ [][NextPair]_vars

(* ------------------------------- claims ------------------------------- *)

\* the session holds an id: Get returned it, the context is not cancelled, the
\* publisher runs and the watcher reads the broadcast channel
Owning(s) ==
  /\ getpc[s] = "ok"
  /\ ~ctxDone[s]
  /\ pubpc[s] \in {"TICKER", "SET"}
  /\ subpc[s] \in {"WATCHING", "CHECK"}
  /\ subscribed[s]

\* C1: two sessions with different uuids that hold an id at the same time hold
\* different ids.
C1_DistinctIds ==
  \A s, t \in Sessions : s # t /\ Owning(s) /\ Owning(t) => rid[s] # rid[t]

\* C2: the id a successful Get returns lies in min..max, whatever ids the peers
\* advertised during discovery and whatever conditional creates failed.
C2_IdInRange ==
  \A s \in Sessions : getpc[s] = "ok" => min <= retId[s] /\ retId[s] <= max

\* a successful Get for which discovery heard of an id above the range and of the
\* lowest id of the range
C2_Witness ==
  /\ getpc["a"] = "ok"
  /\ {min, max + 1} \subseteq usedIds["a"]
  /\ retId["a"] = max

\* C3: at the moment Get returns an id, the lock key of that id exists and holds
\* the uuid of the session.
C3_KeyHeldAtReturn ==
  [][\A s \in Sessions :
       getpc[s] = "spawn" /\ getpc'[s] = "ok"
         => /\ candidateLockKey(retId'[s]) \in Keys
            /\ lock'[candidateLockKey(retId'[s])].val = Uuid(s)]_vars

\* C4 (state part): what the channel and the results of Get may hold at each
\* point of Get
HandshakeState(s) ==
  /\ getpc[s] = "new" => channel[s] = <<>> /\ subpc[s] = "off"
  /\ getpc[s] = "wait" /\ channel[s] # <<>> =>
       /\ subpc[s] \in {"sendNil", "sendErr"}
       /\ channel[s] = <<Nil>> <=> subpc[s] = "sendNil"
  /\ getpc[s] = "failed" =>
       /\ retErr[s] # Nil /\ retId[s] = ErrorID
       /\ channel[s] = <<>> /\ subpc[s] = "done"
       /\ asyncErrs[s] = <<>> /\ pubpc[s] = "off"
  /\ getpc[s] \in {"spawn", "ok"} =>
       /\ retErr[s] = Nil
       /\ channel[s] # <<>> => channel[s][1] \in {ErrRedis, ErrDupId}
       /\ \A k \in 1..Len(asyncErrs[s]) : asyncErrs[s][k] \in {ErrRedis, ErrDupId}

\* C4 (step part): the value offered to a waiting Get is not replaced, and Get
\* leaves its wait only by receiving it
HandshakeStep(s) ==
  /\ getpc[s] = "wait" /\ channel[s] # <<>> /\ getpc'[s] = "wait" => channel'[s] = channel[s]
  /\ getpc[s] = "wait" /\ getpc'[s] # "wait" =>
       /\ channel[s] # <<>> /\ channel'[s] = <<>>
       /\ getpc'[s] = IF channel[s] = <<Nil>> THEN "spawn" ELSE "failed"
  /\ getpc[s] = "failed" => getpc'[s] = "failed"
  /\ getpc[s] = "ok" => getpc'[s] = "ok"

\* C4: every Get resolves with exactly one outcome: subscribe sends one handshake
\* value before Get returns, nil for success and an error for failure, and what it
\* sends later is an error sent after a success.
C4_OneOutcome ==
  /\ [](\A s \in Sessions : HandshakeState(s))
  /\ [][\A s \in Sessions : HandshakeStep(s)]_vars
  /\ getpc["a"] = "wait" ~> getpc["a"] \in {"ok", "failed"}

\* an error sent after the success of Get has reached the caller
C4_Witness == getpc["a"] = "ok" /\ asyncErrs["a"] = <<ErrDupId>>

\* C5 (step part): publish ends only on a tick that finds the context cancelled;
\* that step issues the delete of the lock key of the id (which may fail), puts
\* nothing on the channel and publishes nothing; a cancelled context is never
\* followed by a Set, and an ended publish stays ended
CancelStep(s) ==
  /\ pubpc[s] # "done" /\ pubpc'[s] = "done" =>
       /\ ctxDone[s] /\ pubpc[s] = "TICKER"
       /\ \/ lock' = [lock EXCEPT ![candidateLockKey(rid[s])] = Absent]
          \/ lock' = lock
       /\ channel' = channel
       /\ inbox' = inbox
  /\ ctxDone[s] /\ pubpc[s] = "TICKER" => pubpc'[s] \in {"TICKER", "done"}
  /\ pubpc[s] = "done" => pubpc'[s] = "done"

\* C5: a context cancelled while the session holds an id makes the publisher
\* issue the delete of its lock key and end, with no publish or set after it saw
\* the cancellation and no report of a failed delete.
C5_CancelDeletes ==
  /\ [][\A s \in Sessions : CancelStep(s)]_vars
  /\ ctxDone["a"] /\ getpc["a"] \in {"spawn", "ok"} ~> pubpc["a"] = "done"

\* publish ended after a delete that failed: the key is still there, nothing was
\* put on the channel
C5_Witness ==
  /\ ctxDone["a"] /\ pubpc["a"] = "done"
  /\ lock[candidateLockKey(rid["a"])].val = Uuid("a")
  /\ channel["a"] = <<>> /\ asyncErrs["a"] = <<>>

\* C6: after a successful Get, a cancelled context ends the publisher and the
\* duplicate watcher.
C6_AllTerminate ==
  getpc["a"] = "ok" /\ ctxDone["a"] ~> pubpc["a"] = "done" /\ subpc["a"] = "done"

\* the uuids a payload can come from, and the ids it can carry
Uuids == {Uuid(u) : u \in Sessions \cup {PeerUuid}}
IdsHeard == (min - 1)..(max + 1)

\* discovery has raised the duplicate-nonce error and the session holds nothing
DupUuidRaised(s) ==
  /\ subpc[s] \in {"sendErr", "done"}
  /\ rid[s] = 0 /\ pubpc[s] = "off"
  /\ \/ getpc[s] = "wait" /\ channel[s] = <<ErrDupUuid>>
     \/ getpc[s] = "failed" /\ retErr[s] = ErrDupUuid /\ channel[s] = <<>>

\* C7: a message of discovery that carries the session's own uuid ends subscribe
\* with the duplicate-nonce error: no SetNX follows, no id is taken, and Get
\* fails with that error.
C7_DuplicateNonce ==
  [][\A s \in Sessions :
       /\ /\ subpc[s] = "SWITCH"
          /\ \E i \in IdsHeard : msg[s].payload = newPayload(Uuid(s), i)
          /\ subpc'[s] # "SWITCH"
          => DupUuidRaised(s)' /\ lock' = lock
       /\ DupUuidRaised(s) => DupUuidRaised(s)' /\ (lock' = lock \/ subpc'[s] = subpc[s])
    ]_vars

\* Get has failed with the duplicate-nonce error
C7_Witness ==
  getpc["a"] = "failed" /\ retErr["a"] = ErrDupUuid /\ subpc["a"] = "done"

\* the payload is the broadcast of another session that uses the id of s
ForeignDup(s, payload) ==
  \E u \in Uuids \ {Uuid(s)} : payload = newPayload(u, rid[s])

\* how many duplicate-id errors s has sent or is sending
DupIdCount(s) ==
  Cardinality({k \in 1..Len(asyncErrs[s]) : asyncErrs[s][k] = ErrDupId})
    + (IF channel[s] = <<ErrDupId>> THEN 1 ELSE 0)

\* C8 (step part): the watcher's verdict on the message it has read
WatcherStep(s) ==
  /\ subpc[s] = "CHECK" /\ subpc'[s] # "CHECK" =>
       IF ForeignDup(s, msg[s].payload)
       THEN subpc'[s] = "sendDup" /\ channel'[s] = <<ErrDupId>>
       ELSE subpc'[s] = "WATCHING" /\ channel'[s] = channel[s]
  /\ channel'[s] = <<ErrDupId>> /\ channel[s] # <<ErrDupId>> =>
       subpc[s] = "CHECK" /\ ForeignDup(s, msg[s].payload)
  /\ subpc[s] = "sendDup" => subpc'[s] \in {"sendDup", "done"}
  /\ subpc[s] = "done" => subpc'[s] = "done"

\* C8: the watcher sends the duplicate-id error exactly when it reads a well-formed
\* message with the session's id and another uuid; it sends it at most once and
\* then ends.
C8_DuplicateId ==
  /\ [](\A s \in Sessions : DupIdCount(s) <= 1)
  /\ [][\A s \in Sessions : WatcherStep(s)]_vars

\* the watcher has sent the duplicate-id error to the caller and has ended
C8_Witness ==
  /\ getpc["a"] = "ok" /\ subpc["a"] = "done"
  /\ asyncErrs["a"] = <<ErrDupId>>

\* the number of ":" in a payload
Colons(p) == Cardinality({k \in 1..Len(p) : p[k] = ":"})

\* the payload is not "<uuid>:<id>": not exactly two fields, or an id field that
\* is not a decimal number
Malformed(p) ==
  \/ Colons(p) # 1
  \/ LET c == CHOOSE k \in 1..Len(p) : p[k] = ":"
         d == SubSeq(p, c + 1, Len(p))
         n == IF d # <<>> /\ d[1] \in {"+", "-"} THEN Tail(d) ELSE d
     IN  n = <<>> \/ \E k \in 1..Len(n) : n[k] \notin {"0", "1", "2", "3", "4", "5", "6", "7", "8", "9"}

\* C9: a payload that does not parse is skipped: the watcher goes on reading and
\* sends nothing, and discovery goes on without failing Get and without marking
\* an id used.
C9_MalformedSkipped ==
  [][\A s \in Sessions :
       /\ /\ subpc[s] = "CHECK" /\ Malformed(msg[s].payload)
          /\ subpc'[s] # "CHECK"
          => subpc'[s] = "WATCHING" /\ channel' = channel
       /\ /\ subpc[s] = "SWITCH" /\ msg[s].kind = "Message" /\ Malformed(msg[s].payload)
          /\ subpc'[s] # "SWITCH"
          => subpc'[s] = "LISTING" /\ channel' = channel /\ usedIds' = usedIds
    ]_vars

\* the watcher holds a payload that does not parse
C9_Witness ==
  /\ subpc["a"] = "CHECK"
  /\ Malformed(msg["a"].payload)
  /\ usedIds["a"] # {}

\* every id of the range is held by another uuid
AllHeldByOthers(s) ==
  \A i \in min..max :
    /\ Exists(candidateLockKey(i))
    /\ lock[candidateLockKey(i)].val # Uuid(s)

\* C10: while every id of the range is held by others, a step of the claim loop
\* never claims an id: it marks an id used or ends with Exhausted (or with the
\* I/O error); and a claim loop that finds all ids held until it ends, ends.
C10_Exhausted ==
  /\ [][\A s \in Sessions :
          subpc[s] = "LOCKING" /\ AllHeldByOthers(s) /\ subpc'[s] # "LOCKING"
            => /\ subpc'[s] = "sendErr"
               /\ channel'[s] \in {<<ErrNoId>>, <<ErrRedis>>}
               /\ channel'[s] = <<ErrNoId>> <=> min..max \subseteq usedIds[s]
               /\ rid'[s] = 0 /\ lock' = lock]_vars
  /\ [][\A s \in Sessions :
          subpc[s] = "LOCKING" /\ AllHeldByOthers(s) /\ subpc'[s] = "LOCKING"
            => usedIds[s] \subseteq usedIds'[s]]_vars
  /\ subpc["a"] = "LOCKING" ~>
       \/ subpc["a"] = "sendErr" /\ channel["a"] \in {<<ErrNoId>>, <<ErrRedis>>}
       \/ ~AllHeldByOthers("a")
  /\ [](\A s \in Sessions : retErr[s] = ErrNoId => getpc[s] = "failed" /\ retId[s] = ErrorID)

\* Get has failed with Exhausted while the peer holds every id of the range
C10_Witness ==
  /\ getpc["a"] = "failed" /\ retErr["a"] = ErrNoId
  /\ AllHeldByOthers("a")
  /\ min..max \subseteq usedIds["a"]

\* C11: when subscribe raises Exhausted, every id of the range has a lock key in
\* the store.
C11_ExhaustedMeansFull ==
  [][\A s \in Sessions :
       channel'[s] = <<ErrNoId>> /\ channel[s] # <<ErrNoId>>
         => \A i \in min..max : lock'[candidateLockKey(i)] # Absent]_vars

\* the step of publish that a tick starts while the context is not cancelled
HeartbeatTick(s) ==
  /\ pubpc[s] = "TICKER" /\ tick[s] /\ ~tick'[s]
  /\ ~ctxDone[s]

\* C12: on every tick with the context not cancelled the publisher publishes its
\* payload and then issues the Set that refreshes its lock key, whether or not the
\* Publish succeeded.
C12_RefreshEveryTick ==
  [][\A s \in Sessions :
       /\ HeartbeatTick(s) =>
            /\ pubpc'[s] = "SET"
            /\ \/ inbox' = Publish(Message(newPayload(Uuid(s), rid[s])))
               \/ inbox' = inbox
       /\ pubpc[s] = "SET" /\ pubpc'[s] # "SET" =>
            \/ lock' = [lock EXCEPT ![candidateLockKey(rid[s])] =
                          [val |-> Uuid(s), ttl |-> LockTTL]]
            \/ lock' = lock]_vars

\* C13: once the context is cancelled during discovery, discovery ends only by
\* raising Canceled: it neither raises another error nor enters the claim loop.
C13_CanceledInDiscovery ==
  [][\A s \in Sessions :
       /\ ctxDone[s]
       /\ subpc[s] \in {"LISTING", "RECV", "SWITCH", "UNSUB"}
       /\ subpc'[s] \notin {"LISTING", "RECV", "SWITCH", "UNSUB"}
       => subpc'[s] = "sendErr" /\ channel'[s] = <<ErrCanceled>>]_vars

\* the ids of the foreign broadcasts that the payload is one of
HeardIds(s, payload) ==
  {i \in IdsHeard : \E u \in Uuids \ {Uuid(s)} : payload = newPayload(u, i)}

\* C14 (step part): discovery records the id of every well-formed foreign
\* broadcast, the set of used ids never shrinks, a failed SetNX adds an id that
\* was not in it, and the id the session takes was not in it
UsedIdsStep(s) ==
  /\ subpc[s] = "SWITCH" /\ subpc'[s] # "SWITCH" =>
       HeardIds(s, msg[s].payload) \subseteq usedIds'[s]
  /\ usedIds[s] \subseteq usedIds'[s]
  /\ subpc[s] = "LOCKING" /\ usedIds'[s] # usedIds[s] =>
       \E c \in (min..max) \ usedIds[s] :
         /\ usedIds'[s] = usedIds[s] \cup {c}
         /\ Exists(candidateLockKey(c))
         /\ rid'[s] = rid[s]
  /\ rid'[s] # rid[s] =>
       /\ subpc[s] = "LOCKING"
       /\ rid'[s] \notin usedIds[s]
       /\ ~Exists(candidateLockKey(rid'[s]))

\* C14: an id heard in a well-formed foreign broadcast during discovery, or whose
\* SetNX failed, is never the target of a later SetNX of the session and is never
\* the id its Get returns.
C14_UsedNeverTaken ==
  /\ [][\A s \in Sessions : UsedIdsStep(s)]_vars
  /\ [](\A s \in Sessions : getpc[s] \in {"spawn", "ok"} => rid[s] \notin usedIds[s])
  /\ [](\A s \in Sessions : getpc[s] = "ok" => retId[s] \notin usedIds[s])

\* Get returned the highest id although the lowest, heard of in discovery, has
\* no lock key
C14_Witness ==
  /\ getpc["a"] = "ok" /\ retId["a"] = max
  /\ min \in usedIds["a"]
  /\ ~Exists(candidateLockKey(min))

\* C15: the refresh writes the session's uuid and a fresh expiry into the lock key
\* of its id whatever the key holds, also when the key expired and holds the uuid
\* of a session that claimed the id since; only a Set the store fails leaves the
\* key as it is.
C15_RefreshOverwrites ==
  [][\A s \in Sessions :
       pubpc[s] = "SET" /\ pubpc'[s] # "SET" =>
         \/ lock' = [lock EXCEPT ![candidateLockKey(rid[s])] =
                       [val |-> Uuid(s), ttl |-> LockTTL]]
         \/ lock' = lock /\ MayFail(s)]_vars

\* b claimed the id of a after a's key had expired, and the key holds a's uuid
\* again
C15_Witness ==
  /\ getpc["a"] = "ok" /\ getpc["b"] = "ok"
  /\ rid["b"] = rid["a"]
  /\ lock[candidateLockKey(rid["a"])].val = Uuid("a")
  /\ pubpc["b"] = "TICKER"

\* C16: publish sends nothing on the channel: none of its steps changes the
\* channel, and every value put on the channel is put there by a step of
\* subscribe.
C16_PublisherSilent ==
  [][\A s \in Sessions :
       /\ pubpc'[s] # pubpc[s] \/ (tick[s] /\ ~tick'[s]) => channel' = channel
       /\ channel'[s] # channel[s] /\ channel'[s] # <<>> =>
            /\ subpc'[s] # subpc[s]
            /\ subpc'[s] \in {"sendNil", "sendErr", "sendResubErr", "sendDup"}
            /\ pubpc' = pubpc /\ tick' = tick]_vars

\* the publisher's key has missed a refresh (a Publish failed) and nothing has
\* reached the channel or the caller
C16_Witness ==
  /\ getpc["a"] = "ok" /\ pubpc["a"] = "SET"
  /\ lock[candidateLockKey(rid["a"])].val = Uuid("a")
  /\ lock[candidateLockKey(rid["a"])].ttl < LockTTL - 1
  /\ channel["a"] = <<>> /\ asyncErrs["a"] = <<>>

\* C17: when opening a subscription fails, before discovery or when the watcher
\* subscribes again, subscribe raises the store error and ends once the error has
\* been received: it goes on to no receive and no second send.
C17_OpenFailureStops ==
  [][\A s \in Sessions :
       /\ subpc[s] = "SUBSCRIBE" /\ subpc'[s] # "LISTING" /\ subpc'[s] # "SUBSCRIBE"
            => subpc'[s] = "sendErr" /\ channel'[s] = <<ErrRedis>>
       /\ subpc[s] = "RESUB" /\ ~subscribed'[s] /\ subpc'[s] # "RESUB"
            => subpc'[s] = "sendResubErr" /\ channel'[s] = <<ErrRedis>>
       /\ subpc[s] \in {"sendErr", "sendResubErr"} /\ subpc'[s] # subpc[s]
            => subpc'[s] = "done" /\ channel'[s] = <<>>
       /\ subpc[s] = "done" => subpc'[s] = "done" /\ channel'[s] = <<>>]_vars

\* the ids of the range that the claim loop of s may still try
Untried(s) == (min..max) \ usedIds[s]

\* C18 (step part): an iteration of the claim loop that issues a SetNX and stays
\* in the loop takes an untried id out of the candidates, so no id is tried twice
ClaimLoopStep(s) ==
  /\ tries'[s] # tries[s] =>
       /\ subpc[s] = "LOCKING" /\ tries'[s] = tries[s] + 1
       /\ Untried(s) # {}
       /\ subpc'[s] = "LOCKING" =>
            /\ Untried(s)' \subseteq Untried(s)
            /\ Cardinality(Untried(s)') = Cardinality(Untried(s)) - 1
  /\ subpc[s] = "LOCKING" /\ subpc'[s] # "LOCKING" =>
       \/ subpc'[s] = "sendNil" /\ channel'[s] = <<Nil>>
       \/ subpc'[s] = "sendErr" /\ channel'[s] \in {<<ErrRedis>>, <<ErrNoId>>}

\* C18: the claim loop ends: it never tries an id twice, issues at most
\* max-min+1 SetNX calls, and resolves with success, the store error or
\* Exhausted.
C18_ClaimLoopEnds ==
  /\ [][\A s \in Sessions : ClaimLoopStep(s)]_vars
  /\ [](\A s \in Sessions :
          /\ tries[s] <= max - min + 1
          /\ subpc[s] = "LOCKING" => tries[s] + Cardinality(Untried(s)) <= max - min + 1)
  /\ subpc["a"] = "LOCKING" ~> subpc["a"] \in {"sendNil", "sendErr"}

\* the claim loop has tried every id of the range in vain and Get has failed
\* with Exhausted
C18_Witness ==
  /\ getpc["a"] = "failed" /\ retErr["a"] = ErrNoId
  /\ tries["a"] = max - min + 1

\* C19: after a Get that failed, no lock key holds the uuid of the session, and
\* its publisher was never started.
C19_FailedHoldsNothing ==
  \A s \in Sessions :
    getpc[s] = "failed" =>
      /\ \A k \in Keys : lock[k].val # Uuid(s)
      /\ pubpc[s] = "off"

\* C20: the step in which publish ends on cancellation leaves every lock key
\* alone that holds another uuid than the session's.
C20_DeletesOwnKeyOnly ==
  [][\A s \in Sessions :
       pubpc[s] # "done" /\ pubpc'[s] = "done" =>
         \A k \in Keys : lock[k].val # Uuid(s) => lock'[k] = lock[k]]_vars

====
